---- MODULE Spec2Model ----
(***************************************************************************)
(* Model of the dailies-notes desktop client (frontend_v3 BackendService)  *)
(* and of the in-memory version store it talks to (version_service).       *)
(*                                                                         *)
(* All client handlers run on the single Qt event loop, so each handler is *)
(* one atomic action.  A Python string is modelled as a sequence of        *)
(* non-empty tokens; string concatenation is sequence concatenation and    *)
(* the empty string is the empty sequence.                                 *)
(***************************************************************************)
EXTENDS Integers, Sequences, FiniteSets, TLC

\* ------------------------------------------------------------------ bounds
\* longest cumulative snapshot the meeting source produces
MaxSegs == 3
\* most lines a transcript may hold before polling is capped
MaxLines == 2
\* most deferred baseline calls waiting in the event loop
MaxPending == 2

\* ------------------------------------------------------------- Python values
\* Python's None (also: a key missing from a dict, as dict.get reports it)
None == "<None>"

\* None in an Optional[str] field whose strings are token sequences
NoText == <<None>>

\* truthiness of a str-or-None value: None and "" are false
Falsy(x) == x = None \/ x = ""

\* dict.get(key, default) of a field that may be missing
get(value, default) == IF value = None THEN default ELSE value

\* str(x) of a field inside an f-string: the empty string adds no token
Str(x) == IF x = "" THEN <<>> ELSE <<x>>

NL == "\n"

\* "\n".join(lines)
RECURSIVE join(_)
join(lines) ==
    IF lines = <<>> THEN <<>>
    ELSE IF Len(lines) = 1 THEN Head(lines)
    ELSE Head(lines) \o <<NL>> \o join(Tail(lines))

Range(s) == {s[i] : i \in DOMAIN s}

\* number of lines of a transcript (one more than its newlines, 0 if empty)
NumLines(t) ==
    IF t = <<>> THEN 0 ELSE 1 + Cardinality({i \in DOMAIN t : t[i] = NL})

\* ------------------------------------------------------------------ segments
\* The utterances of the meeting, oldest first, as the transcription source
\* reports them.  Each has its own identifier, except seg0, which carries
\* neither id nor timestamp; seg3 is identified by its timestamp; seg4 has
\* no speaker and an empty text.
seg1 == [id |-> "1", timestamp |-> None, speaker |-> "A", text |-> "hi"]
seg2 == [id |-> "2", timestamp |-> "t2", speaker |-> "B", text |-> "yo"]
seg3 == [id |-> "", timestamp |-> "3", speaker |-> "C", text |-> "new"]
seg0 == [id |-> None, timestamp |-> None, speaker |-> "A", text |-> "um"]
seg4 == [id |-> "4", timestamp |-> None, speaker |-> None, text |-> ""]

Meeting == <<seg1, seg2, seg3, seg0, seg4>>

\* segment_id = seg.get("id") or seg.get("timestamp", "")
SegmentId(seg) ==
    IF ~Falsy(seg.id) THEN seg.id ELSE get(seg.timestamp, "")

\* f"{seg.get('speaker', 'Unknown')}: {seg.get('text', '')}"
SegmentLine(seg) ==
    Str(get(seg.speaker, "Unknown")) \o <<": ">> \o Str(get(seg.text, ""))

\* the identifiers a snapshot carries
SnapshotIds(segs) == {SegmentId(segs[i]) : i \in DOMAIN segs} \ {""}

\* ------------------------------------------------------------ version store
\* version_service.Version
Version(id, name, user_notes, ai_notes, transcript) ==
    [id |-> id, name |-> name, user_notes |-> user_notes,
     ai_notes |-> ai_notes, transcript |-> transcript]

\* the ids a client may ask for: two that can exist and one that never does
ScratchId == "_scratch"
VersionIds == {ScratchId, "v1", "v9"}

\* the parsed rows (versions_data) of the playlist file the client imports
PlaylistRows == <<[id |-> "v1", name |-> "Shot 1"]>>

VARIABLES
    \* ---- version store (backend process)
    versions,                 \* _versions: id -> Version
    version_order,            \* _version_order
    \* ---- meeting-transcription source and Qt event loop
    segments,                 \* cumulative snapshot the source holds
    pending,                  \* QTimer.singleShot(0, baseline) calls queued
    running_timers,           \* QTimer objects started and not stopped
    \* ---- BackendService fields
    selected_version_id,
    selected_version_name,
    current_notes,
    current_ai_notes,
    current_transcript,
    staging_note,
    version_activation_time,
    seen_segment_ids,
    vexa_service,
    meeting_active,
    current_meeting_id,
    transcription_timer,
    \* ---- history (not read by any handler)
    last,                     \* what the last handler did
    routed,                   \* ids appended since the last selectVersion
    at_select,                \* ids in the snapshot when it ran
    first_baseline,           \* ids a baseline marked before any poll tick
    \* ---- finer views of single calls (see the sections that use them)
    stack,                    \* handlers of the GUI thread in progress
    make_request,             \* one _make_request call and its attempts
    call,                     \* the store's last endpoint call and response
    appended_ids,             \* ids appended to a transcript in the meeting
    \* ---- BackendService fields of the version note panel
    version_notes,            \* _version_notes: version id -> note text
    current_version_note

store == <<versions, version_order>>
loop == <<segments, pending, running_timers>>
selection == <<selected_version_id, selected_version_name, current_notes,
               current_ai_notes, staging_note, version_activation_time>>
router == <<current_transcript, seen_segment_ids>>
meeting == <<vexa_service, meeting_active, current_meeting_id,
             transcription_timer>>
history == <<last, routed, at_select, first_baseline>>
panel == <<version_notes, current_version_note>>
aux == <<stack, make_request, call, appended_ids, panel>>
vars == <<store, loop, selection, router, meeting, history, aux>>

\* -------------------------------------------------- version store endpoints
\* Each endpoint yields the HTTP status, the response's version and the
\* store it leaves behind.
Response(status, version, vs, order) ==
    [status |-> status, version |-> version, versions |-> vs, order |-> order]

\* a create that adds an entry to the order list even for a stored id
create_version_always_appends(vs, order, version) ==
    Response(200, version,
             [i \in DOMAIN vs \cup {version.id} |->
                 IF i = version.id THEN version ELSE vs[i]],
             Append(order, version.id))

\* POST /versions
create_version(vs, order, version) ==
    IF version.id \in DOMAIN vs
    THEN Response(200, version, [vs EXCEPT ![version.id] = version], order)
    ELSE Response(200, version,
                  [i \in DOMAIN vs \cup {version.id} |->
                      IF i = version.id THEN version ELSE vs[i]],
                  Append(order, version.id))

\* GET /versions/{version_id}
get_version(vs, order, version_id) ==
    IF version_id \notin DOMAIN vs
    THEN Response(404, None, vs, order)
    ELSE Response(200, vs[version_id], vs, order)

\* a PUT that answers 200 without storing the transcript it was sent
update_notes_transcript_ignored(vs, order, version_id, request) ==
    IF version_id \notin DOMAIN vs
    THEN Response(404, None, vs, order)
    ELSE Response(200, vs[version_id], vs, order)

\* a PUT that empties the fields the request leaves out
update_notes_replaces_all(vs, order, version_id, request) ==
    IF version_id \notin DOMAIN vs
    THEN Response(404, None, vs, order)
    ELSE LET version == vs[version_id]
             updated ==
               [version EXCEPT
                  !.user_notes = IF request.user_notes # NoText
                                 THEN request.user_notes ELSE <<>>,
                  !.ai_notes = IF request.ai_notes # NoText
                               THEN request.ai_notes ELSE <<>>,
                  !.transcript = IF request.transcript # NoText
                                 THEN request.transcript ELSE <<>>]
         IN Response(200, updated, [vs EXCEPT ![version_id] = updated], order)

\* PUT /versions/{version_id}/notes; a field of the request may be None
update_notes(vs, order, version_id, request) ==
    IF version_id \notin DOMAIN vs
    THEN Response(404, None, vs, order)
    ELSE LET version == vs[version_id]
             updated ==
               [version EXCEPT
                  !.user_notes = IF request.user_notes # NoText
                                 THEN request.user_notes ELSE @,
                  !.ai_notes = IF request.ai_notes # NoText
                               THEN request.ai_notes ELSE @,
                  !.transcript = IF request.transcript # NoText
                                 THEN request.transcript ELSE @]
         IN Response(200, updated, [vs EXCEPT ![version_id] = updated], order)

\* an empty _versions dict
NoVersions == [i \in {} |-> None]

\* DELETE /versions
clear_versions(vs, order) ==
    Response(200, None, NoVersions, << >>)

\* POST /versions/upload-csv, from the parsed rows on: the store is cleared
\* and one Version with empty notes and transcript is stored per row
RECURSIVE upload_rows(_, _, _)
upload_rows(vs, order, rows) ==
    IF rows = <<>> THEN Response(200, None, vs, order)
    ELSE LET version == Version(Head(rows).id, Head(rows).name, <<>>, <<>>, <<>>)
         IN upload_rows(
              [i \in DOMAIN vs \cup {version.id} |->
                  IF i = version.id THEN version ELSE vs[i]],
              Append(order, version.id),
              Tail(rows))

\* an upload that adds its rows to the store it finds
upload_csv_kept_store(rows) == upload_rows(versions, version_order, rows)

upload_csv(rows) == upload_rows(NoVersions, << >>, rows)

\* ------------------------------------------------------------ HTTP transport
\* How one _make_request call ends: "ok" (the server handled the request
\* and an attempt returned its response) or "error" (no attempt reached the
\* server).
NetOutcomes == {"ok", "error"}

\* the server handled the request
Delivered(net) == net = "ok"

\* _make_request raises unless an attempt returned a non-error status
Raises(net, response) == net # "ok" \/ response.status >= 400

\* ------------------------------------------------------- history bookkeeping
\* what the last step did to the segment router: which of selectVersion,
\* _mark_current_segments_as_seen ("baseline") and _poll_transcription ("poll")
\* it ran, how that ended, the ids whose lines it appended, the pushes it
\* sent to the store and whether an exception left the handler
Did(op, outcome, new, pushes, raised) ==
    [op |-> op, outcome |-> outcome, new |-> new, pushes |-> pushes,
     raised |-> raised]

\* a step that ran none of the three
Quiet == Did("none", "none", <<>>, <<>>, FALSE)

\* a handler without its try/except: the exception reaches the event loop
exception_propagates(raised_inside) == raised_inside

\* try: ... except Exception: (log or pass): whether an exception raised
\* inside the block leaves the handler
except_Exception(raised_inside) == FALSE

\* ---------------------------------------------------------- segment routing
\* a filter that never consults the seen set
new_segments_unfiltered(segs, seen) ==
    SelectSeq(segs, LAMBDA seg : ~Falsy(SegmentId(seg)))

\* the loop of _poll_transcription: the segments whose identifier is not yet
\* seen, each identifier being marked as soon as it is met
RECURSIVE new_segments(_, _)
new_segments(segs, seen) ==
    IF segs = <<>> THEN <<>>
    ELSE LET seg == Head(segs)
             segment_id == SegmentId(seg)
         IN IF ~Falsy(segment_id) /\ segment_id \notin seen
            THEN <<seg>> \o new_segments(Tail(segs), seen \cup {segment_id})
            ELSE new_segments(Tail(segs), seen)

\* the identifiers the loop adds to the seen set
marked(new) == {SegmentId(new[i]) : i \in DOMAIN new}

\* new_text = "\n".join(f"{speaker}: {text}" for seg in new_segments)
new_text(new) == join([i \in DOMAIN new |-> SegmentLine(new[i])])

\* an append that puts the new text before the old
appended_in_front(transcript, text) ==
    IF transcript # <<>> THEN text \o <<NL>> \o transcript ELSE text

\* an append that forgets the newline between the old text and the new
appended_without_newline(transcript, text) == transcript \o text

\* the append to the existing transcript
appended(transcript, text) ==
    IF transcript # <<>> THEN transcript \o <<NL>> \o text ELSE text

\* what the source answers to get_transcription: the cumulative snapshot
\* (empty until somebody has spoken) or an error
FetchOutcomes == {"ok", "raise"}
fetched(fetch) == IF fetch = "ok" THEN segments ELSE <<>>

\* a save that returns before sending anything
save_transcript_not_sent(transcript_text, net) ==
    [versions |-> versions, pushes |-> <<>>, raised |-> FALSE]

\* _save_transcript_to_active_version: the store after the PUT and the
\* request sent (none when no version is selected); no exception leaves it
save_transcript_to_active_version(transcript_text, net) ==
    IF Falsy(selected_version_id)
    THEN [versions |-> versions, pushes |-> <<>>, raised |-> FALSE]
    ELSE LET response ==
               update_notes(versions, version_order, selected_version_id,
                            [user_notes |-> NoText, ai_notes |-> NoText,
                             transcript |-> transcript_text])
         IN [versions |-> IF Delivered(net) THEN response.versions
                          ELSE versions,
             pushes |-> <<[id |-> selected_version_id,
                           transcript |-> transcript_text,
                           ok |-> ~Raises(net, response)]>>,
             raised |-> except_Exception(Raises(net, response))]

\* a guard that forgets the activation time
no_selected_version == Falsy(selected_version_id)

\* "Only route transcripts if a version is selected"
no_active_version ==
    Falsy(selected_version_id) \/ version_activation_time = None

\* _poll_transcription for meeting id `mid` and service `svc`: the seen set,
\* transcript and store it leaves, and its report
poll_transcription(mid, svc, fetch, net) ==
    LET same(why) == [seen |-> seen_segment_ids,
                      transcript |-> current_transcript,
                      versions |-> versions,
                      outcome |-> why, new |-> <<>>, pushes |-> <<>>,
                      raised |-> FALSE]
        segs == fetched(fetch)
        new == new_segments(segs, seen_segment_ids)
        transcript == appended(current_transcript, new_text(new))
        saved == save_transcript_to_active_version(transcript, net)
    IN IF Falsy(mid) \/ ~svc THEN same("no_meeting")
       ELSE IF no_active_version THEN same("idle")
       ELSE IF fetch = "raise"
       THEN [same("raise") EXCEPT !.raised = except_Exception(TRUE)]
       ELSE IF segs = <<>> THEN same("empty")
       ELSE IF new = <<>>
       THEN [same("ok") EXCEPT !.seen = seen_segment_ids \cup marked(new)]
       ELSE [seen |-> seen_segment_ids \cup marked(new),
             transcript |-> transcript,
             versions |-> saved.versions,
             outcome |-> "ok",
             new |-> [i \in DOMAIN new |-> SegmentId(new[i])],
             pushes |-> saved.pushes,
             raised |-> except_Exception(saved.raised)]

\* ---------------------------------------------------------------- start-up
\* the value time.time() returns; the handlers only test it against None
Time == "time"

\* the record _create_scratch_version posts
scratch_version == Version(ScratchId, "Scratch Notes", <<>>, <<>>, <<>>)

\* The store holds one imported version when the client starts and no Vexa
\* key is saved.  __init__ ends with _create_scratch_version, whose POST may
\* fail.  (meeting_status is written by joinMeeting and leaveMeeting and read
\* by no handler; it is left out.)
BackendService_init ==
    \E net \in NetOutcomes :
      LET vs0 == [i \in {"v1"} |-> Version("v1", "Shot 1", <<>>, <<>>, <<>>)]
          response == create_version(vs0, <<"v1">>, scratch_version)
      IN /\ versions = IF Delivered(net) THEN response.versions ELSE vs0
         /\ version_order = IF Delivered(net) THEN response.order ELSE <<"v1">>
         /\ segments = <<>>
         /\ pending = 0
         /\ running_timers = 0
         /\ selected_version_id =
              IF Raises(net, response) THEN None ELSE ScratchId
         /\ selected_version_name = ""
         /\ current_notes = <<>>
         /\ current_ai_notes = <<>>
         /\ current_transcript = <<>>
         /\ staging_note = <<>>
         /\ version_activation_time = None
         /\ seen_segment_ids = {}
         /\ vexa_service = FALSE
         /\ meeting_active = FALSE
         /\ current_meeting_id = ""
         /\ transcription_timer = None
         /\ last = Quiet
         /\ routed = <<>>
         /\ at_select = {}
         /\ first_baseline = {}
         /\ version_notes =
              IF Raises(net, response) THEN [i \in {} |-> <<>>]
              ELSE [i \in {ScratchId} |-> <<>>]
         /\ current_version_note = <<>>

\* the client after construction; no call is being followed more closely
Init ==
    /\ BackendService_init
    /\ stack = <<>>
    /\ make_request = None
    /\ call = None
    /\ appended_ids = {}

\* ------------------------------------------------------------------ handlers
\* (The setters of the user-edited properties, stagingNote among them, touch
\* no field the router reads and are left out: staging_note only changes
\* when selectVersion or resetWorkspace clears it.)
\* a selectVersion that resets the tracking before it asks the store
select_failed_after_reset ==
    /\ seen_segment_ids' = {}
    /\ version_activation_time' = Time
    /\ UNCHANGED <<store, loop, meeting, routed, at_select, first_baseline,
                   selected_version_id, selected_version_name, current_notes,
                   current_ai_notes, staging_note, current_transcript>>

\* selectVersion's except clause: the failed request is logged
select_failed ==
    UNCHANGED <<store, loop, selection, router, meeting, routed, at_select,
                first_baseline>>

\* an activation that keeps the seen set of the previous version
reset_tracking_keeps_seen ==
    /\ version_activation_time' = Time
    /\ seen_segment_ids' = seen_segment_ids
    /\ pending' = pending + 1

\* selectVersion: "Reset transcript tracking for new version - start fresh",
\* then the baseline is queued with QTimer.singleShot(0, ...)
reset_tracking ==
    /\ version_activation_time' = Time
    /\ seen_segment_ids' = {}
    /\ pending' = pending + 1

\* selectVersion's try block after the GET: the version's fields are loaded
\* and the tracking is reset
version_loaded(version) ==
    /\ selected_version_id' = version.id
    /\ selected_version_name' = version.name
    /\ current_notes' = version.user_notes
    /\ current_ai_notes' = version.ai_notes
    /\ current_transcript' = version.transcript
    /\ staging_note' = <<>>
    /\ reset_tracking
    /\ UNCHANGED <<store, meeting, segments, running_timers>>

\* selectVersion(version_id)
selectVersion(version_id, net) ==
    LET response == get_version(versions, version_order, version_id)
        version == response.version
    IN /\ Raises(net, response) \/ pending < MaxPending
       /\ UNCHANGED aux
       /\ IF Raises(net, response)
          THEN /\ last' = Did("selectVersion",
                              IF response.status = 404 THEN "unknown"
                              ELSE "error",
                              <<>>, <<>>, except_Exception(TRUE))
               /\ select_failed
          ELSE /\ version_loaded(version)
               /\ last' = Did("selectVersion", "ok", <<>>, <<>>, FALSE)
               /\ routed' = <<>>
               /\ at_select' = IF Falsy(current_meeting_id) THEN {}
                               ELSE SnapshotIds(segments)
               /\ first_baseline' = {}

\* a baseline that assigns the ids it had not met instead of adding them
marked_as_seen_unseen_only(fetch) ==
    LET segs == fetched(fetch)
    IN IF Falsy(current_meeting_id) \/ ~vexa_service THEN seen_segment_ids
       ELSE IF fetch = "raise" THEN seen_segment_ids
       ELSE ({SegmentId(segs[i]) : i \in DOMAIN segs} \ {""})
              \ seen_segment_ids

\* a baseline that rebuilds the seen set and loses it when the fetch fails
marked_as_seen_rebuilt(fetch) ==
    LET segs == fetched(fetch)
    IN IF Falsy(current_meeting_id) \/ ~vexa_service THEN seen_segment_ids
       ELSE {SegmentId(segs[i]) : i \in DOMAIN segs} \ {""}

\* the seen set _mark_current_segments_as_seen leaves: every identifier of
\* the fetched snapshot is added; nothing changes when no meeting is joined
\* or the fetch raises
marked_as_seen(fetch) ==
    LET segs == fetched(fetch)
    IN IF Falsy(current_meeting_id) \/ ~vexa_service THEN seen_segment_ids
       ELSE IF fetch = "raise" THEN seen_segment_ids
       ELSE seen_segment_ids \cup
              ({SegmentId(segs[i]) : i \in DOMAIN segs} \ {""})

\* _mark_current_segments_as_seen, run by the event loop for one queued
\* QTimer.singleShot(0, ...)
mark_current_segments_as_seen(fetch) ==
    LET skipped == Falsy(current_meeting_id) \/ ~vexa_service
        first == ~skipped /\ fetch = "ok" /\ routed = <<>>
                 /\ seen_segment_ids = {}
    IN /\ pending > 0
       /\ UNCHANGED aux
       /\ pending' = pending - 1
       /\ seen_segment_ids' = marked_as_seen(fetch)
       /\ last' = Did("baseline", IF skipped THEN "skipped" ELSE fetch,
                      <<>>, <<>>,
                      IF ~skipped /\ fetch = "raise"
                      THEN except_Exception(TRUE) ELSE FALSE)
       /\ first_baseline' = IF first THEN SnapshotIds(segments)
                            ELSE first_baseline
       /\ UNCHANGED <<store, selection, meeting, segments, running_timers,
                      current_transcript, routed, at_select>>

\* a poll that keeps only the ids of the segments it has just appended
Polled_seen_replaced(result) ==
    /\ NumLines(result.transcript) <= MaxLines
    /\ seen_segment_ids' = IF result.new = <<>> THEN result.seen
                           ELSE Range(result.new)
    /\ current_transcript' = result.transcript
    /\ versions' = result.versions
    /\ routed' = routed \o result.new
    /\ UNCHANGED <<version_order, selection, at_select, first_baseline>>

\* the part of a handler that is its call of _poll_transcription
Polled(result) ==
    /\ NumLines(result.transcript) <= MaxLines
    /\ seen_segment_ids' = result.seen
    /\ current_transcript' = result.transcript
    /\ versions' = result.versions
    /\ routed' = routed \o result.new
    /\ UNCHANGED <<version_order, selection, at_select, first_baseline>>

\* the transcription timer's timeout: one poll tick
PollTick(fetch, net) ==
    LET result == poll_transcription(current_meeting_id, vexa_service,
                                     fetch, net)
    IN /\ running_timers > 0
       /\ UNCHANGED aux
       /\ Polled(result)
       /\ last' = Did("poll", result.outcome, result.new, result.pushes,
                      result.raised)
       /\ UNCHANGED <<loop, meeting>>

\* what start_transcription and stop_transcription may answer
ServiceOutcomes == {"success", "failure", "raise"}

\* _start_transcription_polling, up to its initial fetch: a running timer
\* is stopped and replaced by a new one
start_timer ==
    /\ running_timers' =
         (IF transcription_timer # None THEN running_timers - 1
          ELSE running_timers) + 1
    /\ transcription_timer' = "QTimer"

\* a stop that leaves the timer running
timer_left_running == UNCHANGED <<running_timers, transcription_timer>>

\* _stop_transcription_polling
stop_transcription_polling ==
    IF transcription_timer # None
    THEN /\ running_timers' = running_timers - 1
         /\ transcription_timer' = None
    ELSE UNCHANGED <<running_timers, transcription_timer>>

\* joinMeeting; `configured` says whether the user has set both the meeting
\* id and the Vexa API key, `answer` is what start_transcription does
joinMeeting(configured, answer) ==
    IF ~configured
    THEN /\ last' = Quiet
         /\ UNCHANGED aux
         /\ UNCHANGED <<store, loop, selection, router, routed, at_select,
                        first_baseline, meeting>>
    ELSE /\ vexa_service' = TRUE
         /\ UNCHANGED aux
         /\ IF answer = "success"
            THEN /\ current_meeting_id' = "meeting"
                 /\ meeting_active' = TRUE
                 /\ start_timer
                 /\ \E fetch \in FetchOutcomes, net \in NetOutcomes :
                      LET result ==
                            poll_transcription("meeting", TRUE, fetch, net)
                      IN /\ Polled(result)
                         /\ last' = Did("poll", result.outcome,
                                        result.new, result.pushes,
                                        result.raised)
                 /\ UNCHANGED <<segments, pending>>
            ELSE /\ meeting_active' =
                      IF answer = "raise" THEN FALSE ELSE meeting_active
                 /\ last' = Quiet
                 /\ UNCHANGED <<store, loop, selection, router, routed,
                                at_select, first_baseline,
                                current_meeting_id, transcription_timer>>

\* leaveMeeting
leaveMeeting(answer) ==
    IF Falsy(current_meeting_id) \/ ~vexa_service
    THEN /\ last' = Quiet
         /\ UNCHANGED aux
         /\ UNCHANGED <<store, loop, selection, router, meeting, routed,
                        at_select, first_baseline>>
    ELSE /\ IF answer = "success"
            THEN /\ stop_transcription_polling
                 /\ meeting_active' = FALSE
                 /\ current_meeting_id' = ""
            ELSE UNCHANGED <<running_timers, transcription_timer,
                             meeting_active, current_meeting_id>>
         /\ last' = Quiet
         /\ UNCHANGED aux
         /\ UNCHANGED <<store, selection, router, routed, at_select,
                        first_baseline, vexa_service, segments, pending>>

\* resetWorkspace's DELETE /versions and, unless it raised, the clearing of
\* the selection
workspace_cleared(net) ==
    LET response == clear_versions(versions, version_order)
    IN /\ versions' = IF Delivered(net) THEN response.versions ELSE versions
       /\ version_order' =
            IF Delivered(net) THEN response.order ELSE version_order
       /\ IF Raises(net, response)
          THEN UNCHANGED <<selected_version_id, selected_version_name,
                           current_notes, current_ai_notes, current_transcript,
                           staging_note>>
          ELSE /\ selected_version_id' = None
               /\ selected_version_name' = ""
               /\ current_notes' = <<>>
               /\ current_ai_notes' = <<>>
               /\ current_transcript' = <<>>
               /\ staging_note' = <<>>
       /\ UNCHANGED <<loop, meeting, version_activation_time,
                      seen_segment_ids>>

\* resetWorkspace
resetWorkspace(net) ==
    /\ workspace_cleared(net)
    /\ last' = Quiet
    /\ UNCHANGED aux
    /\ UNCHANGED <<routed, at_select, first_baseline>>

\* importCSV: the playlist file is posted (requests.post, no retry) and the
\* store replaced by its rows; the client's fields are untouched
importCSV(net) ==
    LET response == upload_csv(PlaylistRows)
    IN /\ versions' = IF Delivered(net) THEN response.versions ELSE versions
       /\ version_order' =
            IF Delivered(net) THEN response.order ELSE version_order
       /\ last' = Quiet
       /\ UNCHANGED aux
       /\ UNCHANGED <<loop, selection, router, meeting, routed, at_select,
                      first_baseline>>

\* ------------------------------------------------------------- environment
\* While the bot sits in the meeting somebody speaks: the source appends the
\* next utterance to its cumulative snapshot.
Speak ==
    /\ ~Falsy(current_meeting_id)
    /\ Len(segments) < MaxSegs
    /\ Len(segments) < Len(Meeting)
    /\ segments' = Append(segments, Meeting[Len(segments) + 1])
    /\ last' = Quiet
    /\ UNCHANGED aux
    /\ UNCHANGED <<store, pending, running_timers, selection, router,
                   meeting, routed, at_select, first_baseline>>

Next ==
    \/ \E version_id \in VersionIds, net \in NetOutcomes :
         selectVersion(version_id, net)
    \/ \E fetch \in FetchOutcomes : mark_current_segments_as_seen(fetch)
    \/ \E fetch \in FetchOutcomes, net \in NetOutcomes : PollTick(fetch, net)
    \/ \E configured \in BOOLEAN, answer \in ServiceOutcomes :
         joinMeeting(configured, answer)
    \/ \E answer \in ServiceOutcomes : leaveMeeting(answer)
    \/ \E net \in NetOutcomes : resetWorkspace(net)
    \/ \E net \in NetOutcomes : importCSV(net)
    \/ Speak

Spec == Init /\ [][Next]_vars

\* ===================================================================== claims
IsPrefix(a, b) == Len(a) <= Len(b) /\ SubSeq(b, 1, Len(a)) = a

\* the place of the segment identified by `id` in the source's snapshot
Position(id) == CHOOSE k \in DOMAIN segments : SegmentId(segments[k]) = id

\* a step that called _poll_transcription / in which it filtered a snapshot
PollStep == last'.op = "poll"
RoutingStep == last'.op = "poll" /\ last'.outcome = "ok"

\* the transcript texts of spec scenarios A, B and C
TextA == <<"A", ": ", "hi">>
TextAB == <<"A", ": ", "hi", "\n", "B", ": ", "yo">>
TextC == <<"C", ": ", "new">>

\* C1: between one successful selectVersion and the next, no segment
\* identifier contributes a line to the active version's transcript more
\* than once, whatever poll ticks run on the growing snapshot.
C1_NoDuplicateWithinActivation ==
    \A i, j \in DOMAIN routed : i # j => routed[i] # routed[j]

\* a second tick met the identifier routed by the first and added only the
\* new one
C1_Witness ==
    /\ last.op = "poll"
    /\ last.new = <<"2">>
    /\ routed = <<"1", "2">>
    /\ seen_segment_ids = {"1", "2"}

\* C2: after selectVersion(B), no segment that was in the meeting's snapshot
\* when selectVersion ran is ever appended to B's transcript, in every
\* interleaving of the deferred baseline and the poll ticks and whether or
\* not the baseline's fetch succeeds.
C2_NoReplayAfterSwitch ==
    \A i \in DOMAIN routed : routed[i] \notin at_select

\* C3: a successful selectVersion empties the seen set; a baseline that then
\* runs before any poll tick and observes snapshot S leaves the seen set
\* equal to the identifiers of S and changes no transcript; and no later
\* poll tick of that activation appends a segment whose identifier is in S.
C3_ResetOnActivation ==
    /\ [][/\ (last'.op = "selectVersion" /\ last'.outcome = "ok")
               => seen_segment_ids' = {}
          /\ (/\ last'.op = "baseline"
              /\ last'.outcome = "ok"
              /\ seen_segment_ids = {}
              /\ routed = <<>>)
               => /\ seen_segment_ids' = SnapshotIds(segments)
                  /\ current_transcript' = current_transcript
                  /\ versions' = versions]_vars
    /\ [](\A i \in DOMAIN routed : routed[i] \notin first_baseline)

\* scenario C after segments 1 and 2 were routed to the scratch version: v1
\* is selected, the baseline marks {1, 2}, and the next tick appends only 3
C3_Witness ==
    /\ selected_version_id = "v1"
    /\ ScratchId \in DOMAIN versions
    /\ versions[ScratchId].transcript = TextAB
    /\ first_baseline = {"1", "2"}
    /\ routed = <<"3">>
    /\ current_transcript = TextC

\* C4: a poll tick that filters snapshot S for an active version leaves the
\* seen set equal to the old one plus S's identifiers and, if some segment
\* of S is new, appends the lines "{speaker}: {text}" of exactly the new
\* segments in snapshot order, joined by newlines and preceded by a newline
\* iff the transcript was non-empty (scenarios A and B included); the lines
\* appended during one activation keep the order of their segments.
C4_RoutingResultAndOrder ==
    /\ [][RoutingStep =>
            LET fresh == SelectSeq(segments,
                           LAMBDA seg : /\ SegmentId(seg) # ""
                                        /\ SegmentId(seg) \notin
                                             seen_segment_ids)
                lines == [i \in DOMAIN fresh |-> SegmentLine(fresh[i])]
            IN /\ seen_segment_ids' =
                    seen_segment_ids \cup SnapshotIds(segments)
               /\ last'.new = [i \in DOMAIN fresh |-> SegmentId(fresh[i])]
               /\ current_transcript' =
                    IF fresh = <<>> THEN current_transcript
                    ELSE IF current_transcript = <<>> THEN join(lines)
                    ELSE current_transcript \o <<"\n">> \o join(lines)
               /\ (/\ seen_segment_ids = {}
                   /\ current_transcript = <<>>
                   /\ segments = <<seg1>>)
                    => (current_transcript' = TextA
                        /\ seen_segment_ids' = {"1"})
               /\ (/\ seen_segment_ids = {"1"}
                   /\ current_transcript = TextA
                   /\ segments = <<seg1, seg2>>)
                    => current_transcript' = TextAB
               /\ (/\ seen_segment_ids = {}
                   /\ current_transcript = <<>>
                   /\ segments = <<seg1, seg2>>)
                    => current_transcript' = TextAB]_vars
    /\ [](\A i, j \in DOMAIN routed :
            i < j => Position(routed[i]) < Position(routed[j]))

\* scenario B: "A: hi" was there, the tick on [1, 2] appended "\nB: yo"
C4_Witness ==
    /\ last.op = "poll"
    /\ last.outcome = "ok"
    /\ last.new = <<"2">>
    /\ current_transcript = TextAB
    /\ seen_segment_ids = {"1", "2"}

\* C5: a poll tick that runs while no version is selected or no activation
\* time is set changes no transcript (in memory or in the store), leaves the
\* seen set and the selection alone, and sends no push, whatever the
\* snapshot holds.
C5_IdleNoOp ==
    [][(PollStep /\ (Falsy(selected_version_id)
                     \/ version_activation_time = None))
         => /\ UNCHANGED <<versions, version_order, current_transcript,
                           seen_segment_ids, routed, selection, pending>>
            /\ last'.pushes = <<>>
            /\ last'.new = <<>>]_vars

\* the scratch version is selected but was never activated: a tick found
\* segments in the snapshot and dropped them
C5_Witness ==
    /\ last.op = "poll"
    /\ last.outcome = "idle"
    /\ selected_version_id = ScratchId
    /\ version_activation_time = None
    /\ SnapshotIds(segments) # {}
    /\ seen_segment_ids = {}
    /\ current_transcript = <<>>

\* C6: a poll tick that appends an increment sends exactly one push, to the
\* selected version id, carrying the whole in-memory transcript after the
\* append; a tick that finds no new segment sends no push.
C6_PushOnIncrement ==
    [][PollStep =>
         /\ (last'.new # <<>>) <=> (current_transcript' # current_transcript)
         /\ IF last'.new # <<>>
            THEN /\ Len(last'.pushes) = 1
                 /\ last'.pushes[1].id = selected_version_id
                 /\ last'.pushes[1].id = selected_version_id'
                 /\ last'.pushes[1].transcript = current_transcript'
            ELSE last'.pushes = <<>>]_vars

\* the tick that found segment 2 pushed both lines, not only the new one
C6_Witness ==
    /\ last.op = "poll"
    /\ last.new = <<"2">>
    /\ Len(last.pushes) = 1
    /\ last.pushes[1].id = ScratchId
    /\ last.pushes[1].transcript = TextAB

\* C7: when the push of an increment fails, the poll tick still leaves the
\* appended lines in the in-memory transcript and their identifiers in the
\* seen set and raises nothing; a push that succeeds leaves the store's
\* transcript of the selected version equal to the whole in-memory
\* transcript, lines of earlier failed pushes included.
C7_PushFailureKeepsAppend ==
    [][(PollStep /\ last'.pushes # <<>>) =>
         /\ ~last'.raised
         /\ IsPrefix(current_transcript, current_transcript')
         /\ Len(current_transcript') > Len(current_transcript)
         /\ Range(last'.new) \subseteq seen_segment_ids'
         /\ IF last'.pushes[1].ok
            THEN /\ selected_version_id \in DOMAIN versions'
                 /\ versions'[selected_version_id].transcript =
                      current_transcript'
            ELSE versions' = versions]_vars

\* the push of "B: yo" failed while the store still lacks "A: hi" as well:
\* both lines are kept in memory for the next push
C7_Witness ==
    /\ last.op = "poll"
    /\ last.new = <<"2">>
    /\ last.pushes # <<>>
    /\ ~last.pushes[1].ok
    /\ current_transcript = TextAB
    /\ seen_segment_ids = {"1", "2"}
    /\ selected_version_id \in DOMAIN versions
    /\ versions[selected_version_id].transcript = <<>>

\* C8: selectVersion with an id the store does not hold raises nothing,
\* leaves the selection (id, name, notes, staging note, activation time),
\* the seen set, the transcript and the store unchanged, and queues no
\* baseline, so the active version goes on receiving increments.
C8_UnknownVersionNoOp ==
    [][(last'.op = "selectVersion" /\ last'.outcome = "unknown") =>
         /\ ~last'.raised
         /\ UNCHANGED <<selection, router, pending, store, routed>>]_vars

\* v1 is active and has received a line when an unknown id is selected
C8_Witness ==
    /\ last.op = "selectVersion"
    /\ last.outcome = "unknown"
    /\ selected_version_id = "v1"
    /\ version_activation_time # None
    /\ seen_segment_ids # {}
    /\ current_transcript # <<>>
    /\ pending = 0

\* C9: _mark_current_segments_as_seen raises nothing and never changes a
\* transcript; when its fetch fails or no meeting is joined the seen set is
\* left exactly as it was, and otherwise identifiers are only added.
C9_BaselineFailureSwallowed ==
    [][(last'.op = "baseline") =>
         /\ ~last'.raised
         /\ current_transcript' = current_transcript
         /\ versions' = versions
         /\ seen_segment_ids \subseteq seen_segment_ids'
         /\ (last'.outcome \in {"raise", "skipped"})
              => seen_segment_ids' = seen_segment_ids]_vars

\* the fetch of a baseline failed after a tick had already marked segments
C9_Witness ==
    /\ last.op = "baseline"
    /\ last.outcome = "raise"
    /\ seen_segment_ids # {}
    /\ SnapshotIds(segments) \ seen_segment_ids # {}

\* the router's state as spec section 5 names it
RouterState ==
    IF Falsy(selected_version_id) \/ version_activation_time = None
    THEN "INACTIVE"
    ELSE IF pending > 0 THEN "ACTIVATING" ELSE "ACTIVE"

\* a poll tick whose fetch raises or returns no segments skips the tick
SkippedTick ==
    (PollStep /\ last'.outcome \in {"raise", "empty"}) =>
      /\ ~last'.raised
      /\ last'.pushes = <<>>
      /\ UNCHANGED <<selection, router, store, routed>>
      /\ running_timers' > 0
      /\ transcription_timer' # None

\* the moves of the router that selectVersion and the baseline make
ActivationMove ==
    \/ /\ RouterState \in {"INACTIVE", "ACTIVE"}
       /\ RouterState' = "ACTIVATING"
       /\ last'.op = "selectVersion"
    \/ /\ RouterState = "ACTIVATING"
       /\ RouterState' = "ACTIVE"
       /\ last'.op = "baseline"

\* the move of the router that a successful resetWorkspace makes
DeselectMove ==
    /\ RouterState \in {"ACTIVATING", "ACTIVE"}
    /\ RouterState' = "INACTIVE"
    /\ ~Falsy(selected_version_id)
    /\ selected_version_id' = None
    /\ current_transcript' = <<>>

\* C10 as stated: a poll tick whose fetch raises or returns no segments
\* changes nothing, pushes nothing, raises nothing and leaves the timer
\* running; the router only moves INACTIVE -> ACTIVATING (selectVersion) ->
\* ACTIVE (baseline done or skipped) -> ACTIVATING (next selectVersion).
C10_AsStated ==
    [][/\ SkippedTick
       /\ (RouterState' # RouterState) => ActivationMove]_vars

\* C10, amended: as above, and the router also moves from ACTIVATING or
\* ACTIVE back to INACTIVE when resetWorkspace clears the selection.
C10_PollingHasNoErrorState ==
    [][/\ SkippedTick
       /\ (RouterState' # RouterState) => (ActivationMove \/ DeselectMove)]_vars

\* the fetch of a tick raised while v1 was active and the snapshot held a
\* segment not yet seen: nothing was routed and the timer still runs
C10_Witness ==
    /\ last.op = "poll"
    /\ last.outcome = "raise"
    /\ RouterState = "ACTIVE"
    /\ running_timers > 0
    /\ SnapshotIds(segments) \ seen_segment_ids # {}
    /\ current_transcript = <<>>

\* C11: in every step the seen-segment set stays the same, gains elements
\* in a baseline or a poll tick, or becomes empty in a successful
\* selectVersion; it is never selectively shrunk.
C11_SeenGrowsOrResets ==
    [][\/ seen_segment_ids' = seen_segment_ids
       \/ /\ seen_segment_ids \subseteq seen_segment_ids'
          /\ last'.op \in {"baseline", "poll"}
       \/ /\ seen_segment_ids' = {}
          /\ last'.op = "selectVersion"
          /\ last'.outcome = "ok"]_vars

\* v1 has just been selected after two segments went to the scratch
\* version: the set that held their ids is empty again
C11_Witness ==
    /\ last.op = "selectVersion"
    /\ last.outcome = "ok"
    /\ selected_version_id = "v1"
    /\ seen_segment_ids = {}
    /\ ScratchId \in DOMAIN versions
    /\ versions[ScratchId].transcript = TextAB
    /\ at_select = {"1", "2"}

\* a step that ends the activation: a successful selectVersion, or a
\* resetWorkspace that clears the selection
ActivationEnds ==
    \/ last'.op = "selectVersion" /\ last'.outcome = "ok"
    \/ ~Falsy(selected_version_id) /\ selected_version_id' = None

\* C12: while a version stays active the in-memory transcript is only
\* appended to: in every step other than a successful selectVersion or a
\* clearing resetWorkspace the old value is a prefix of the new one, whatever
\* poll ticks, baselines, fetch failures and push failures occur.
C12_TranscriptAppendOnly ==
    [][~ActivationEnds => IsPrefix(current_transcript, current_transcript')]_vars

\* two ticks appended to the same activation, the store is behind (a push
\* failed) and a baseline ran after them
C12_Witness ==
    /\ last.op = "baseline"
    /\ routed = <<"1", "2">>
    /\ current_transcript = TextAB
    /\ selected_version_id \in DOMAIN versions
    /\ versions[selected_version_id].transcript # current_transcript

\* C13: when the baseline runs twice in a row with successful fetches (the
\* snapshot cannot change in between), the second run leaves the seen set as
\* the first left it, and neither changes a transcript or sends a push.
C13_IdempotentBaseline ==
    [][(/\ last.op = "baseline"
        /\ last.outcome = "ok"
        /\ last'.op = "baseline"
        /\ last'.outcome = "ok")
         => /\ seen_segment_ids' = seen_segment_ids
            /\ current_transcript' = current_transcript
            /\ versions' = versions
            /\ last.pushes = <<>>
            /\ last'.pushes = <<>>]_vars

\* a baseline has marked a non-empty snapshot and a second one is queued
\* behind it (selectVersion was called twice before the event loop ran)
C13_Witness ==
    /\ last.op = "baseline"
    /\ last.outcome = "ok"
    /\ pending = 1
    /\ segments # <<>>
    /\ seen_segment_ids = SnapshotIds(segments)
    /\ ~Falsy(current_meeting_id)
    /\ vexa_service

\* C16: while no meeting is joined (before the first joinMeeting and after
\* a successful leaveMeeting) no transcription timer runs, and no poll tick
\* or queued baseline changes the seen set or a transcript or sends a push,
\* until a joinMeeting succeeds.
C16_LeavingStopsRouting ==
    /\ [](Falsy(current_meeting_id)
            => running_timers = 0 /\ transcription_timer = None)
    /\ [][(/\ Falsy(current_meeting_id)
           /\ Falsy(current_meeting_id')
           /\ last'.op \in {"poll", "baseline"})
            => /\ UNCHANGED <<seen_segment_ids, current_transcript, versions>>
               /\ last'.pushes = <<>>]_vars

\* the meeting was left while a baseline was queued for the active version
\* and the snapshot held segments not yet seen: the baseline marked nothing
C16_Witness ==
    /\ last.op = "baseline"
    /\ last.outcome = "skipped"
    /\ Falsy(current_meeting_id)
    /\ ~meeting_active
    /\ vexa_service
    /\ version_activation_time # None
    /\ SnapshotIds(segments) \ seen_segment_ids # {}

\* `line` is one of the lines of transcript t
HasLine(t, line) ==
    \E k \in DOMAIN t :
      /\ k + Len(line) - 1 <= Len(t)
      /\ SubSeq(t, k, k + Len(line) - 1) = line
      /\ (k = 1 \/ t[k - 1] = NL)
      /\ (k + Len(line) - 1 = Len(t) \/ t[k + Len(line)] = NL)

\* the line appended for the segment identified by `id`
RoutedLine(id) == SegmentLine(segments[Position(id)])

\* C20: no routed text is lost across switches: when a successful
\* selectVersion ends the activation of a version A the store still holds,
\* every line appended to A's in-memory transcript during that activation is
\* in the transcript the store keeps for A, which is what selectVersion(A)
\* loads when A is activated next.
C20_NoRoutedTextLost ==
    [][(/\ last'.op = "selectVersion"
        /\ last'.outcome = "ok"
        /\ selected_version_id \in DOMAIN versions')
         => \A i \in DOMAIN routed :
              HasLine(versions'[selected_version_id].transcript,
                      RoutedLine(routed[i]))]_vars

\* ============================================ the GUI thread, step by step
\* The handlers are methods of one QObject; the Qt event loop of the thread
\* that owns it calls them for user actions, for the timeout of the
\* transcription QTimer and for QTimer.singleShot(0, ...).  Here a handler
\* takes two steps, its call and its return, and `stack` holds the calls in
\* progress, innermost last.  No handler starts a thread or re-enters the
\* event loop: its requests block until they are answered.
\* most calls in progress at once that are followed
MaxDepth == 2

\* the handlers that write the seen set, the transcript or the activation time
RouterHandlers == {"selectVersion", "baseline", "poll"}

\* an event loop that delivers events while a handler is still running
event_loop_reentrant == Len(stack) < MaxDepth

\* the event loop takes the next event when the handler it called returned
event_loop_idle == stack = <<>>

Top == stack[Len(stack)]
Popped == SubSeq(stack, 1, Len(stack) - 1)

\* the ghost of the coarse view and the other calls' views stay as they are
LoopFrame == UNCHANGED <<last, make_request, call, appended_ids, panel>>

\* the event loop calls a handler: a user action, the transcription timer's
\* timeout, or a queued baseline (whose event is consumed)
Dispatch(handler) ==
    /\ event_loop_idle
    /\ handler = "poll" => running_timers > 0
    /\ handler = "baseline" => pending > 0
    /\ handler = "selectVersion" => pending < MaxPending
    /\ stack' = Append(stack, handler)
    /\ pending' = IF handler = "baseline" THEN pending - 1 ELSE pending
    /\ LoopFrame
    /\ UNCHANGED <<store, segments, running_timers, selection, router,
                   meeting, routed, at_select, first_baseline>>

\* selectVersion returns
select_returns(version_id, net) ==
    LET response == get_version(versions, version_order, version_id)
    IN /\ stack # <<>>
       /\ Top = "selectVersion"
       /\ stack' = Popped
       /\ LoopFrame
       /\ IF Raises(net, response)
          THEN select_failed
          ELSE /\ version_loaded(response.version)
               /\ routed' = <<>>
               /\ UNCHANGED <<at_select, first_baseline>>

\* _mark_current_segments_as_seen returns
baseline_returns(fetch) ==
    /\ stack # <<>>
    /\ Top = "baseline"
    /\ stack' = Popped
    /\ LoopFrame
    /\ seen_segment_ids' = marked_as_seen(fetch)
    /\ UNCHANGED <<store, segments, pending, running_timers, selection,
                   meeting, current_transcript, routed, at_select,
                   first_baseline>>

\* _poll_transcription returns, to the event loop or to joinMeeting
poll_returns(fetch, net) ==
    /\ stack # <<>>
    /\ Top = "poll"
    /\ stack' = Popped
    /\ LoopFrame
    /\ Polled(poll_transcription(current_meeting_id, vexa_service,
                                 fetch, net))
    /\ UNCHANGED <<loop, meeting>>

\* joinMeeting, its start_transcription answered, starts the timer and
\* calls _poll_transcription itself ("Do initial fetch"); or it gives up
join_calls_poll(answer) ==
    /\ stack # <<>>
    /\ Top = "joinMeeting"
    /\ LoopFrame
    /\ vexa_service' = TRUE
    /\ IF answer = "success"
       THEN /\ stack' = Popped \o <<"joinMeeting:polling", "poll">>
            /\ current_meeting_id' = "meeting"
            /\ meeting_active' = TRUE
            /\ start_timer
       ELSE /\ stack' = Popped
            /\ meeting_active' =
                 IF answer = "raise" THEN FALSE ELSE meeting_active
            /\ UNCHANGED <<current_meeting_id, transcription_timer,
                           running_timers>>
    /\ UNCHANGED <<store, segments, pending, selection, router, routed,
                   at_select, first_baseline>>

\* joinMeeting returns after its initial poll
join_returns ==
    /\ stack # <<>>
    /\ Top = "joinMeeting:polling"
    /\ stack' = Popped
    /\ LoopFrame
    /\ UNCHANGED <<store, loop, selection, router, meeting, routed,
                   at_select, first_baseline>>

\* the handlers that are followed in one step
whole_handler ==
    /\ event_loop_idle
    /\ \/ \E answer \in ServiceOutcomes : leaveMeeting(answer)
       \/ \E net \in NetOutcomes : resetWorkspace(net)
       \/ \E net \in NetOutcomes : importCSV(net)

LoopNext ==
    \/ \E handler \in RouterHandlers \cup {"joinMeeting"} : Dispatch(handler)
    \/ \E version_id \in VersionIds, net \in NetOutcomes :
         select_returns(version_id, net)
    \/ \E fetch \in FetchOutcomes : baseline_returns(fetch)
    \/ \E fetch \in FetchOutcomes, net \in NetOutcomes :
         poll_returns(fetch, net)
    \/ \E answer \in ServiceOutcomes : join_calls_poll(answer)
    \/ join_returns
    \/ whole_handler
    \/ Speak

LoopSpec == Init /\ [][LoopNext]_vars

MaxAttempts == 3

\* how one attempt ends: requests.request returns a response whose status
\* raise_for_status accepts, returns one it rejects (HTTPError), or raises
\* itself (ConnectionError, Timeout); all three exceptions are
\* RequestExceptions
AttemptOutcomes == {"ok", "http_error", "connection_error"}

\* what an attempt leaves behind: the response, or the exception it raised
Ended(kind, attempt) == [kind |-> kind, attempt |-> attempt]
Nothing == Ended(None, 0)

\* an attempt without raise_for_status: any response is returned
response_unchecked(outcome) == outcome # "connection_error"

\* the attempt reaches `return response`
response_returned(outcome) == outcome = "ok"

\* a call that will make its attempts with the outcomes of `script`
one_call(retry_attempts, script) ==
    [retry_attempts |-> retry_attempts, script |-> script, attempt |-> 0,
     state |-> "running", last_exception |-> Nothing, result |-> Nothing]

\* the call starts with a positive retry_attempts and any run of outcomes
RetryInit ==
    /\ BackendService_init
    /\ stack = <<>>
    /\ call = None
    /\ appended_ids = {}
    /\ \E retry_attempts \in 1..MaxAttempts :
         \E script \in [1..retry_attempts -> AttemptOutcomes] :
           make_request = one_call(retry_attempts, script)

RetryFrame ==
    UNCHANGED <<store, loop, selection, router, meeting, history, stack, call,
                appended_ids, panel>>

\* one pass through the body of `for attempt in range(self._retry_attempts)`
attempt_request ==
    LET r == make_request
        k == r.attempt + 1
    IN /\ r.state = "running"
       /\ r.attempt < r.retry_attempts
       /\ make_request' =
            IF response_returned(r.script[k])
            THEN [r EXCEPT !.attempt = k, !.state = "returned",
                           !.result = Ended(r.script[k], k)]
            ELSE [r EXCEPT !.attempt = k,
                           !.last_exception = Ended(r.script[k], k)]
       /\ RetryFrame

\* "All retries failed": raise last_exception
raise_last_exception ==
    LET r == make_request
    IN /\ r.state = "running"
       /\ r.attempt = r.retry_attempts
       /\ make_request' = [r EXCEPT !.state = "raised",
                                    !.result = r.last_exception]
       /\ RetryFrame

RetryNext == attempt_request \/ raise_last_exception

RetrySpec == RetryInit /\ [][RetryNext]_vars

\* C15: _make_request makes at most retry_attempts attempts; it returns the
\* response of the first attempt that succeeds and makes no attempt after
\* it; when retry_attempts attempts in a row have failed it raises the
\* exception of the last one; it never returns a failed response.
C15_BoundedRetry ==
    LET r == make_request
        failed(k) == r.script[k] # "ok"
    IN /\ r.attempt <= r.retry_attempts
       /\ \A k \in 1..(r.attempt - 1) : failed(k)
       /\ r.state = "running" => \A k \in 1..r.attempt : failed(k)
       /\ r.state = "returned" =>
            /\ r.result = Ended("ok", r.attempt)
            /\ ~failed(r.attempt)
            /\ ~ENABLED attempt_request
       /\ r.state = "raised" =>
            /\ r.attempt = r.retry_attempts
            /\ failed(r.retry_attempts)
            /\ r.result =
                 Ended(r.script[r.retry_attempts], r.retry_attempts)

\* the second of three allowed attempts succeeded after a connection error:
\* its response was returned and the third attempt was not made
C15_Witness ==
    /\ make_request.state = "returned"
    /\ make_request.retry_attempts = 3
    /\ make_request.attempt = 2
    /\ make_request.script[1] = "connection_error"
    /\ make_request.script[3] = "http_error"

\* ========================================================= notes and export
\* In the notes a string is a sequence of tokens that are either a word
\* (no whitespace in it), a space or a newline.
SP == " "
IsSpace(token) == token \in {SP, NL}

\* str.strip()
RECURSIVE lstrip(_)
lstrip(t) ==
    IF t # <<>> /\ IsSpace(Head(t)) THEN lstrip(Tail(t)) ELSE t
RECURSIVE rstrip(_)
rstrip(t) ==
    IF t # <<>> /\ IsSpace(t[Len(t)])
    THEN rstrip(SubSeq(t, 1, Len(t) - 1)) ELSE t
strip(t) == rstrip(lstrip(t))

\* str.split("\n\n"): cut at the leftmost pair of newlines, then go on
\* behind it
RECURSIVE split(_)
split(t) ==
    LET hits == {i \in 1..(Len(t) - 1) : t[i] = NL /\ t[i + 1] = NL}
    IN IF hits = {} THEN <<t>>
       ELSE LET i == CHOOSE h \in hits : \A g \in hits : h <= g
            IN <<SubSeq(t, 1, i - 1)>> \o split(SubSeq(t, i + 2, Len(t)))

\* an add_note that stores the text as typed
add_note_untrimmed(vs, order, version_id, note_text) ==
    IF version_id \notin DOMAIN vs
    THEN Response(404, None, vs, order)
    ELSE LET version == vs[version_id]
             formatted_note == <<"User:", SP>> \o note_text
             updated ==
               [version EXCEPT
                  !.user_notes =
                     IF @ # <<>> THEN @ \o <<NL, NL>> \o formatted_note
                     ELSE formatted_note]
         IN Response(200, updated, [vs EXCEPT ![version_id] = updated], order)

\* POST /versions/{version_id}/notes
add_note(vs, order, version_id, note_text) ==
    IF version_id \notin DOMAIN vs
    THEN Response(404, None, vs, order)
    ELSE LET version == vs[version_id]
             formatted_note == <<"User:", SP>> \o strip(note_text)
             updated ==
               [version EXCEPT
                  !.user_notes =
                     IF @ # <<>> THEN @ \o <<NL, NL>> \o formatted_note
                     ELSE formatted_note]
         IN Response(200, updated, [vs EXCEPT ![version_id] = updated], order)

\* one row of the exported file
Row(version, note, transcript) ==
    [version |-> version, note |-> note, transcript |-> transcript]

HeaderRow == <<"Version", "Note", "Transcript">>

\* a version that gets no row when it has no notes
version_rows_notes_only(version) ==
    LET notes == IF version.user_notes # <<>>
                 THEN split(version.user_notes) ELSE <<>>
        kept == SelectSeq(notes, LAMBDA note : strip(note) # <<>>)
    IN [i \in DOMAIN kept |->
          Row(version.name, strip(kept[i]), version.transcript)]

\* the rows export_csv writes for one version
version_rows(version) ==
    LET notes == IF version.user_notes # <<>>
                 THEN split(version.user_notes) ELSE <<>>
        kept == SelectSeq(notes, LAMBDA note : strip(note) # <<>>)
    IN IF notes # <<>>
       THEN [i \in DOMAIN kept |->
               Row(version.name, strip(kept[i]), version.transcript)]
       ELSE <<Row(version.name, <<>>, version.transcript)>>

\* GET /versions/export/csv (version_service.export_csv and
\* csv_service.export_versions_csv run the same loop): the header and the
\* rows written, or status 500 when _versions[version_id] raises KeyError
RECURSIVE export_rows(_, _)
export_rows(vs, order) ==
    IF order = <<>> THEN <<>>
    ELSE version_rows(vs[Head(order)]) \o export_rows(vs, Tail(order))
export_csv(vs, order) ==
    IF \E i \in DOMAIN order : order[i] \notin DOMAIN vs
    THEN [status |-> 500, header |-> <<>>, rows |-> <<>>]
    ELSE [status |-> 200, header |-> HeaderRow, rows |-> export_rows(vs, order)]

\* ------------------------------------------------- the store, call by call
\* most notes add_note is followed to on one version
MaxNotes == 2

\* the record of the last endpoint call: its name, argument, HTTP status and
\* response body
Called(op, arg, status, body) ==
    [op |-> op, arg |-> arg, status |-> status, body |-> body]

\* the backend as the client's start-up leaves it; no endpoint called yet
StoreInit ==
    /\ BackendService_init
    /\ stack = <<>>
    /\ make_request = None
    /\ call = Called("none", <<>>, 0, <<>>)
    /\ appended_ids = {}

\* the endpoints change nothing in the client
StoreFrame ==
    UNCHANGED <<loop, selection, router, meeting, history, stack,
                make_request, appended_ids, panel>>

\* the store a response carries is installed
Stored(response) ==
    /\ versions' = response.versions
    /\ version_order' = response.order

\* playlists as parsed rows: one shot, two shots, the same shot twice
ExportPlaylists ==
    {<<[id |-> "A", name |-> "Shot A"]>>,
     <<[id |-> "A", name |-> "Shot A"], [id |-> "B", name |-> "Shot B"]>>,
     <<[id |-> "A", name |-> "Shot A"], [id |-> "A", name |-> "Shot A"]>>}

\* the texts users type as notes
NoteTexts == {<<"a">>, <<SP, "b", SP>>, <<SP>>}

\* the bodies clients PUT to /versions/{id}/notes
NotesRequests ==
    {[user_notes |-> <<"x", NL, NL, NL, "y", NL, "z", NL, NL, SP>>,
      ai_notes |-> NoText, transcript |-> NoText],
     [user_notes |-> <<SP, NL, NL, SP>>,
      ai_notes |-> NoText, transcript |-> NoText],
     [user_notes |-> <<>>, ai_notes |-> NoText, transcript |-> NoText],
     [user_notes |-> NoText, ai_notes |-> NoText, transcript |-> <<"T">>]}

\* the ids clients name: those the store may hold and one it never holds
Targets == {ScratchId, "v1", "A", "B", "b1", "n1", "v9"}

NoteCount(user_notes) ==
    IF user_notes = <<>> THEN 0 ELSE Len(split(user_notes))

playlist_uploaded(rows) ==
    /\ Stored(upload_csv(rows))
    /\ call' = Called("upload_csv", rows, 200, <<>>)
    /\ StoreFrame

note_added(version_id, note_text) ==
    LET response == add_note(versions, version_order, version_id, note_text)
    IN /\ version_id \in DOMAIN versions
         => NoteCount(versions[version_id].user_notes) < MaxNotes
       /\ Stored(response)
       /\ call' = Called("add_note", version_id, response.status, <<>>)
       /\ StoreFrame

notes_updated(version_id, body) ==
    LET response == update_notes(versions, version_order, version_id, body)
    IN /\ Stored(response)
       /\ call' = Called("update_notes", version_id, response.status, <<>>)
       /\ StoreFrame

csv_exported ==
    LET response == export_csv(versions, version_order)
    IN /\ call' = Called("export_csv", <<>>, response.status,
                         [header |-> response.header, rows |-> response.rows])
       /\ UNCHANGED store
       /\ StoreFrame

ExportNext ==
    \/ \E rows \in ExportPlaylists : playlist_uploaded(rows)
    \/ \E version_id \in Targets, note_text \in NoteTexts :
         note_added(version_id, note_text)
    \/ \E version_id \in Targets, body \in NotesRequests :
         notes_updated(version_id, body)
    \/ csv_exported

ExportSpec == StoreInit /\ [][ExportNext]_vars

\* the places where a note starts in user_notes: a word that is the first
\* one, or that has a blank line between it and the word before it
NoteStarts(t) ==
    {i \in DOMAIN t :
       /\ ~IsSpace(t[i])
       /\ LET before == {j \in 1..(i - 1) : ~IsSpace(t[j])}
          IN \/ before = {}
             \/ LET j == CHOOSE b \in before : \A c \in before : c <= b
                IN \E k \in (j + 1)..(i - 2) : t[k] = NL /\ t[k + 1] = NL}

\* the note that starts at i: up to the last word before the next start
NoteAt(t, i) ==
    LET later == {n \in NoteStarts(t) : n > i}
        limit == IF later = {} THEN Len(t)
                 ELSE (CHOOSE n \in later : \A m \in later : n <= m) - 1
        words == {j \in i..limit : ~IsSpace(t[j])}
    IN SubSeq(t, i, CHOOSE w \in words : \A v \in words : v <= w)

\* the elements of a set of numbers in ascending order
Ascending(S) ==
    CHOOSE f \in [1..Cardinality(S) -> S] :
      \A a, b \in 1..Cardinality(S) : a < b => f[a] < f[b]

\* the notes stored in user_notes, first to last
StoredNotes(t) ==
    LET starts == Ascending(NoteStarts(t))
    IN [n \in DOMAIN starts |-> NoteAt(t, starts[n])]

\* one row per stored note of the version
NoteRows(version) ==
    LET notes == StoredNotes(version.user_notes)
    IN [n \in DOMAIN notes |->
          Row(version.name, notes[n], version.transcript)]

RECURSIVE RowsOfNotes(_)
RowsOfNotes(order) ==
    IF order = <<>> THEN <<>>
    ELSE NoteRows(versions[Head(order)]) \o RowsOfNotes(Tail(order))

RECURSIVE RowsOfNotesOrBlank(_)
RowsOfNotesOrBlank(order) ==
    IF order = <<>> THEN <<>>
    ELSE LET version == versions[Head(order)]
         IN (IF version.user_notes = <<>>
             THEN <<Row(version.name, <<>>, version.transcript)>>
             ELSE NoteRows(version))
            \o RowsOfNotesOrBlank(Tail(order))

MaxRows == 2

\* A cell of the CSV file is a string with at most one word in it.
\* str.lower() of the words that occur in headers
LowerWord(token) ==
    CASE token \in {"ID", "Id", "id"} -> "id"
      [] token = "Version" -> "version"
      [] OTHER -> token
lower(t) == [i \in DOMAIN t |-> LowerWord(t[i])]

\* the Python string a one-word token sequence stands for
Text(t) == IF t = <<>> THEN "" ELSE t[1]

\* version_id_idx: the first column whose header is "id"; 0 for None
version_id_idx(header) ==
    LET ids == {idx \in DOMAIN header : Text(strip(lower(header[idx]))) = "id"}
    IN IF ids = {} THEN 0 ELSE CHOOSE idx \in ids : \A j \in ids : idx <= j

\* versions_data: the rows upload_csv keeps, as id and name
RECURSIVE versions_data(_, _)
versions_data(id_idx, rows) ==
    IF rows = <<>> THEN <<>>
    ELSE LET row == Head(rows)
             version_name == Text(strip(row[1]))
             version_id ==
               IF id_idx # 0 /\ Len(row) >= id_idx
                  /\ strip(row[id_idx]) # <<>>
               THEN Text(strip(row[id_idx])) ELSE version_name
         IN IF row # <<>> /\ strip(row[1]) # <<>>
            THEN <<[id |-> version_id, name |-> version_name]>>
                   \o versions_data(id_idx, Tail(rows))
            ELSE versions_data(id_idx, Tail(rows))

\* POST /versions/upload-csv for a file; 400 when it has no header row
upload_csv_file(vs, order, file) ==
    IF file.header = <<>> THEN Response(400, None, vs, order)
    ELSE upload_csv(versions_data(version_id_idx(file.header), file.rows))

\* list.remove(x): the first occurrence goes
remove(order, x) ==
    LET i == CHOOSE k \in DOMAIN order :
               order[k] = x /\ \A j \in 1..(k - 1) : order[j] # x
    IN SubSeq(order, 1, i - 1) \o SubSeq(order, i + 1, Len(order))

\* a delete that answers 200 whether or not the store holds the id
delete_version_unchecked(vs, order, version_id) ==
    Response(200, None,
             [i \in DOMAIN vs \ {version_id} |-> vs[i]],
             SelectSeq(order, LAMBDA x : x # version_id))

\* DELETE /versions/{version_id}
delete_version(vs, order, version_id) ==
    IF version_id \notin DOMAIN vs
    THEN Response(404, None, vs, order)
    ELSE Response(200, None,
                  [i \in DOMAIN vs \ {version_id} |-> vs[i]],
                  remove(order, version_id))

\* GET /versions: count and the versions in order, or status 500 when
\* _versions[vid] raises KeyError
get_versions(vs, order) ==
    IF \E i \in DOMAIN order : order[i] \notin DOMAIN vs
    THEN [status |-> 500, count |-> 0, versions |-> <<>>]
    ELSE [status |-> 200, count |-> Cardinality(DOMAIN vs),
          versions |-> [i \in DOMAIN order |-> vs[order[i]]]]

\* header rows: none, name only, name and a padded upper-case ID column, an
\* Id column that is also the first column
Headers ==
    {<<>>,
     <<<<"Version">>>>,
     <<<<"Version">>, <<SP, "ID", SP>>>>,
     <<<<"Id">>, <<"Version">>>>}

\* data rows: an empty line, a name alone, padded name with id, blank name,
\* name with padded id, name with blank id
DataRows ==
    {<<>>,
     <<<<"A">>>>,
     <<<<SP, "A", SP>>, <<"b1">>>>,
     <<<<SP>>, <<"b1">>>>,
     <<<<"B">>, <<SP, "b1">>>>,
     <<<<"B">>, <<SP>>>>}

\* the files clients upload
Files ==
    {[header |-> header, rows |-> rows] :
       header \in Headers,
       rows \in UNION {[1..n -> DataRows] : n \in 0..MaxRows}}

\* the bodies clients POST to /versions
NewVersions ==
    {Version("A", "Shot A", <<>>, <<>>, <<>>),
     Version("n1", "New", <<>>, <<>>, <<>>)}

csv_uploaded(file) ==
    LET response == upload_csv_file(versions, version_order, file)
    IN /\ Stored(response)
       /\ call' = Called("upload_csv", file, response.status, <<>>)
       /\ StoreFrame

version_created(version) ==
    LET response == create_version(versions, version_order, version)
    IN /\ Stored(response)
       /\ call' = Called("create_version", version.id, response.status, <<>>)
       /\ StoreFrame

version_deleted(version_id) ==
    LET response == delete_version(versions, version_order, version_id)
    IN /\ Stored(response)
       /\ call' = Called("delete_version", version_id, response.status, <<>>)
       /\ StoreFrame

versions_cleared ==
    /\ Stored(clear_versions(versions, version_order))
    /\ call' = Called("clear_versions", <<>>, 200, <<>>)
    /\ StoreFrame

versions_listed ==
    LET response == get_versions(versions, version_order)
    IN /\ call' = Called("get_versions", <<>>, response.status,
                         [count |-> response.count,
                          versions |-> response.versions])
       /\ UNCHANGED store
       /\ StoreFrame

StoreNext ==
    \/ \E file \in Files : csv_uploaded(file)
    \/ \E version \in NewVersions : version_created(version)
    \/ \E version_id \in Targets : version_deleted(version_id)
    \/ versions_cleared
    \/ versions_listed
    \/ csv_exported

StoreSpec == StoreInit /\ [][StoreNext]_vars

\* the data rows of the uploaded file whose first column is non-blank
NamedRows(file) ==
    SelectSeq(file.rows, LAMBDA row : row # <<>> /\ strip(row[1]) # <<>>)

\* the id the claim gives a row: its trimmed id column when the header has
\* one and the row's is non-blank, else its trimmed first column
IdOfRow(file, row) ==
    LET cols == {c \in DOMAIN file.header :
                   strip(file.header[c]) \in {<<"id">>, <<"ID">>, <<"Id">>}}
        col == CHOOSE c \in cols : \A d \in cols : c <= d
    IN IF cols # {} /\ col \in DOMAIN row /\ strip(row[col]) # <<>>
       THEN Text(strip(row[col]))
       ELSE Text(strip(row[1]))

\* C18: after an upload the store holds one version per data row whose
\* first column is non-blank, in file order, named by the trimmed first
\* column and identified by the trimmed id column (header "id" in any case,
\* spaces ignored) when the row has a non-blank one, else by the name.
C18_ImportRows ==
    (call.op = "upload_csv" /\ call.status = 200) =>
      LET file == call.arg
          rows == NamedRows(file)
      IN /\ Len(version_order) = Len(rows)
         /\ Cardinality(DOMAIN versions) = Len(rows)
         /\ \A k \in DOMAIN rows :
              /\ version_order[k] = IdOfRow(file, rows[k])
              /\ version_order[k] \in DOMAIN versions
              /\ versions[version_order[k]] =
                   Version(IdOfRow(file, rows[k]), Text(strip(rows[k][1])),
                           <<>>, <<>>, <<>>)

\* C19: the order list holds every key of the versions map exactly once and
\* nothing else, so ids are unique in the store, get_versions returns
\* `count` versions, and get_versions and export_csv never fail on a
\* missing key.
C19_OrderMatchesVersions ==
    /\ Range(version_order) = DOMAIN versions
    /\ \A i, j \in DOMAIN version_order :
         i # j => version_order[i] # version_order[j]
    /\ call.op = "get_versions" =>
         /\ call.status = 200
         /\ Len(call.body.versions) = call.body.count
    /\ call.op = "export_csv" => call.status = 200

\* ================================================ a meeting with fair polling
\* One joined meeting followed to the end: the timer keeps firing, queued
\* baselines are run, the user switches versions at will.  A version is made
\* active before the meeting is joined and nothing deactivates it (no
\* resetWorkspace, no leaveMeeting), so every segment enters the snapshot
\* while some version is active.  appended_ids records every identifier a
\* poll tick has appended to a transcript.
\* most lines a transcript may reach in the followed meeting
MaxTranscript == 4

LiveFrame == UNCHANGED <<history, stack, make_request, call, panel>>

\* selectVersion(version_id) that succeeds; the user switches only while the
\* loaded transcript leaves room for every segment of the meeting
live_select(version_id, net) ==
    LET response == get_version(versions, version_order, version_id)
    IN /\ ~Raises(net, response)
       /\ pending < MaxPending
       /\ NumLines(response.version.transcript) + MaxSegs <= MaxTranscript
       /\ version_loaded(response.version)
       /\ UNCHANGED appended_ids
       /\ LiveFrame

\* the event loop runs one queued _mark_current_segments_as_seen
live_baseline(fetch) ==
    /\ pending > 0
    /\ pending' = pending - 1
    /\ seen_segment_ids' = marked_as_seen(fetch)
    /\ UNCHANGED <<store, selection, meeting, segments, running_timers,
                   current_transcript, appended_ids>>
    /\ LiveFrame

\* what a call of _poll_transcription leaves
live_polled(result) ==
    /\ seen_segment_ids' = result.seen
    /\ current_transcript' = result.transcript
    /\ versions' = result.versions
    /\ appended_ids' = appended_ids \cup Range(result.new)
    /\ UNCHANGED <<version_order, selection>>

\* the transcription timer's timeout
live_tick(fetch, net) ==
    /\ running_timers > 0
    /\ live_polled(poll_transcription(current_meeting_id, vexa_service,
                                      fetch, net))
    /\ UNCHANGED <<loop, meeting>>
    /\ LiveFrame

\* joinMeeting with the meeting configured, once a version is active
live_join(answer) ==
    /\ ~no_active_version
    /\ Falsy(current_meeting_id)
    /\ vexa_service' = TRUE
    /\ IF answer = "success"
       THEN /\ current_meeting_id' = "meeting"
            /\ meeting_active' = TRUE
            /\ start_timer
            /\ \E fetch \in FetchOutcomes, net \in NetOutcomes :
                 live_polled(poll_transcription("meeting", TRUE, fetch, net))
            /\ UNCHANGED <<segments, pending>>
       ELSE /\ meeting_active' =
                 IF answer = "raise" THEN FALSE ELSE meeting_active
            /\ UNCHANGED <<store, loop, selection, router, appended_ids,
                           current_meeting_id, transcription_timer>>
    /\ LiveFrame

\* somebody speaks in the joined meeting
live_speak ==
    /\ ~Falsy(current_meeting_id)
    /\ Len(segments) < MaxSegs
    /\ segments' = Append(segments, Meeting[Len(segments) + 1])
    /\ UNCHANGED <<store, pending, running_timers, selection, router,
                   meeting, appended_ids>>
    /\ LiveFrame

\* a tick whose fetch succeeds
tick_fetches == \E net \in NetOutcomes : live_tick("ok", net)

\* a queued baseline is run
baseline_runs == \E fetch \in FetchOutcomes : live_baseline(fetch)

LiveNext ==
    \/ \E version_id \in VersionIds, net \in NetOutcomes :
         live_select(version_id, net)
    \/ \E fetch \in FetchOutcomes : live_baseline(fetch)
    \/ \E fetch \in FetchOutcomes, net \in NetOutcomes : live_tick(fetch, net)
    \/ \E answer \in ServiceOutcomes : live_join(answer)
    \/ live_speak

\* Ticks keep firing and fetches eventually succeed: a tick that could
\* route something again and again does so in the end, however the user
\* keeps switching.  The event loop runs what is queued.
LiveSpec ==
    /\ Init
    /\ [][LiveNext]_vars
    /\ SF_vars(tick_fetches)
    /\ WF_vars(baseline_runs)

\* C21: while a version is active throughout a joined meeting, every
\* segment identifier that enters the source's snapshot is eventually
\* appended to the transcript of some version, whatever the version
\* switches.
C21_NoSegmentDropped ==
    \A id \in SnapshotIds(Meeting) :
      (id \in SnapshotIds(segments)) ~> (id \in appended_ids)

\* ==================================================== routing to the selection
\* the identifiers of the snapshot the seen set does not hold
Unseen == SnapshotIds(segments) \ seen_segment_ids

\* C22: whenever a version is selected (the "_scratch" version selected at
\* start-up included) and a meeting is joined, a poll tick whose snapshot
\* holds a segment identifier that is not in the seen set appends that
\* segment to the current transcript.
C22_SelectedVersionReceives ==
    [][(/\ PollStep
        /\ last'.outcome # "raise"
        /\ ~Falsy(selected_version_id)
        /\ ~Falsy(current_meeting_id')
        /\ vexa_service'
        /\ Unseen # {})
         => \A id \in Unseen :
              /\ id \in Range(last'.new)
              /\ HasLine(current_transcript', RoutedLine(id))]_vars

\* C23: under any joinMeeting and leaveMeeting calls with any outcome of the
\* transcription service, meetingActive is true exactly when a polling timer
\* is running; at most one timer runs, and no poll tick routes segments
\* while meetingActive is false.
C23_ActiveIffPolling ==
    /\ meeting_active <=> running_timers > 0
    /\ running_timers <= 1
    /\ (last.op = "poll" /\ last.new # <<>>) => meeting_active

\* ============================================ the store's per-version calls
\* The endpoints that address one version, followed call by call on the
\* store the client's start-up leaves.  `call` holds the last call: its
\* name, its arguments (the id of the path and the request body), the HTTP
\* status and the version the response carries.
\* what the /llm-summary call of generate_ai_notes comes to
LLMOutcomes == {"ok", "error"}
Summary == <<"summary">>

\* POST /versions/{version_id}/generate-ai-notes; `transcript` is the
\* request's, None when absent
generate_ai_notes(vs, order, version_id, transcript, llm) ==
    IF version_id \notin DOMAIN vs
    THEN Response(404, None, vs, order)
    ELSE LET version == vs[version_id]
             text == IF transcript # NoText /\ transcript # <<>>
                     THEN transcript ELSE version.transcript
             updated == [version EXCEPT !.ai_notes = Summary]
         IN IF text = <<>> THEN Response(400, None, vs, order)
            ELSE IF llm # "ok" THEN Response(500, None, vs, order)
            ELSE Response(200, updated,
                          [vs EXCEPT ![version_id] = updated], order)

\* the arguments of a call: the path's version id and the body
Args(version_id, request) == [version_id |-> version_id, request |-> request]

\* the notes users type
TypedNotes == {<<SP, "b", SP>>, <<SP>>}

\* the bodies clients PUT: nothing supplied, an empty user_notes alone, a
\* transcript alone, ai_notes alone, all three
Puts ==
    {[user_notes |-> NoText, ai_notes |-> NoText, transcript |-> NoText],
     [user_notes |-> <<>>, ai_notes |-> NoText, transcript |-> NoText],
     [user_notes |-> NoText, ai_notes |-> NoText, transcript |-> <<"T">>],
     [user_notes |-> NoText, ai_notes |-> Summary, transcript |-> NoText],
     [user_notes |-> <<"User:", SP, "b">>, ai_notes |-> <<>>,
      transcript |-> <<>>]}

\* the record of a call that addresses one version and of its response
Answer(op, version_id, request, response) ==
    Called(op, Args(version_id, request), response.status, response.version)

get_version_called(version_id) ==
    LET response == get_version(versions, version_order, version_id)
    IN /\ Stored(response)
       /\ call' = Answer("get_version", version_id, None, response)
       /\ StoreFrame

add_note_called(version_id, note_text) ==
    LET response == add_note(versions, version_order, version_id, note_text)
    IN /\ version_id \in DOMAIN versions
         => NoteCount(versions[version_id].user_notes) < MaxNotes
       /\ Stored(response)
       /\ call' = Answer("add_note", version_id, note_text, response)
       /\ StoreFrame

update_notes_called(version_id, request) ==
    LET response == update_notes(versions, version_order, version_id, request)
    IN /\ Stored(response)
       /\ call' = Answer("update_notes", version_id, request, response)
       /\ StoreFrame

generate_ai_notes_called(version_id, transcript, llm) ==
    LET response == generate_ai_notes(versions, version_order, version_id,
                                      transcript, llm)
    IN /\ Stored(response)
       /\ call' = Answer("generate_ai_notes", version_id, transcript, response)
       /\ StoreFrame

delete_version_called(version_id) ==
    LET response == delete_version(versions, version_order, version_id)
    IN /\ Stored(response)
       /\ call' = Answer("delete_version", version_id, None, response)
       /\ StoreFrame

NotesNext ==
    \/ \E version_id \in VersionIds : get_version_called(version_id)
    \/ \E version_id \in VersionIds, note_text \in TypedNotes :
         add_note_called(version_id, note_text)
    \/ \E version_id \in VersionIds, request \in Puts :
         update_notes_called(version_id, request)
    \/ \E version_id \in VersionIds, transcript \in {NoText, <<"T">>},
          llm \in LLMOutcomes :
         generate_ai_notes_called(version_id, transcript, llm)
    \/ \E version_id \in VersionIds : delete_version_called(version_id)

NotesSpec == StoreInit /\ [][NotesNext]_vars

\* the calls that address one version
VersionCalls ==
    {"get_version", "add_note", "update_notes", "generate_ai_notes",
     "delete_version"}

\* C24: get_version, add_note, update_notes, generate_ai_notes and
\* delete_version called with an id that is not in the store answer 404 and
\* leave the version map and the order list unchanged.
C24_UnknownIdIs404 ==
    [][(call'.op \in VersionCalls /\ call'.arg.version_id \notin DOMAIN versions)
         => /\ call'.status = 404
            /\ versions' = versions
            /\ version_order' = version_order]_vars

\* v1 was deleted and a second delete_version('v1') has answered 404
C24_Witness ==
    /\ call.op = "delete_version"
    /\ call.status = 404
    /\ call.arg.version_id = "v1"
    /\ "v1" \notin DOMAIN versions
    /\ ScratchId \in DOMAIN versions

\* ================================================== building the catalogue
\* The calls that build the list of versions (create_version, upload_csv,
\* clear_versions) and the call that lists it, followed call by call.
\* the versions clients POST: a stored id under a new name, a new id with
\* notes and a transcript, the same id again with none
Posted ==
    {Version("v1", "Renamed", <<>>, <<>>, <<>>),
     Version("n1", "New", <<"User:", SP, "b">>, Summary, <<"T">>),
     Version("n1", "Newer", <<>>, <<>>, <<>>)}

\* the files clients upload: no header row; names only, with an empty line
\* and a blank name; an ID column with padded cells; the same name twice
Uploads ==
    {[header |-> <<>>, rows |-> <<>>],
     [header |-> <<<<"Version">>>>,
      rows |-> <<<<<<"n1">>>>, <<>>, <<<<SP>>, <<"x">>>>, <<<<"v1">>>>>>],
     [header |-> <<<<"Version">>, <<SP, "ID", SP>>>>,
      rows |-> <<<<<<SP, "A", SP>>, <<"n1">>>>, <<<<"B">>, <<SP>>>>>>],
     [header |-> <<<<"Version">>>>,
      rows |-> <<<<<<"A">>>>, <<<<"A">>>>>>]}

create_version_called(version) ==
    LET response == create_version(versions, version_order, version)
    IN /\ Stored(response)
       /\ call' = Called("create_version", version, response.status,
                         response.version)
       /\ StoreFrame

CatalogNext ==
    \/ \E version \in Posted : create_version_called(version)
    \/ \E file \in Uploads : csv_uploaded(file)
    \/ versions_cleared
    \/ versions_listed

CatalogSpec == StoreInit /\ [][CatalogNext]_vars

\* the ids of a listing, in the order listed
ListedIds(listing) == [i \in DOMAIN listing |-> listing[i].id]

C26_UploadReplacesStore ==
    [][call'.op = "upload_csv" =>
         LET file == call'.arg
             rows == NamedRows(file)
         IN IF file.header = <<>>
            THEN /\ call'.status = 400
                 /\ versions' = versions
                 /\ version_order' = version_order
            ELSE /\ call'.status = 200
                 /\ DOMAIN versions' =
                      {IdOfRow(file, rows[k]) : k \in DOMAIN rows}
                 /\ Range(version_order') = DOMAIN versions'
                 /\ \A id \in DOMAIN versions' :
                      \E k \in DOMAIN rows :
                        versions'[id] =
                          Version(IdOfRow(file, rows[k]),
                                  Text(strip(rows[k][1])),
                                  <<>>, <<>>, <<>>)]_vars

\* a file naming n1 and v1 was uploaded: the scratch version is gone and
\* what the store holds carries no notes
C26_Witness ==
    /\ call.op = "upload_csv"
    /\ call.status = 200
    /\ DOMAIN versions = {"n1", "v1"}
    /\ version_order = <<"n1", "v1">>
    /\ versions["n1"] = Version("n1", "n1", <<>>, <<>>, <<>>)

\* ======================================================= rows of the export
\* the rows an export gives to the version stored under `id`
RowsFor(id) ==
    {k \in DOMAIN call.body.rows :
       /\ call.body.rows[k].version = versions[id].name
       /\ call.body.rows[k].transcript = versions[id].transcript}

\* C27: the export contains at least one row for every version in the
\* store, whatever its user_notes value; a version without notes is written
\* as one row with an empty Note field and its transcript.
C27_EveryVersionExported ==
    call.op = "export_csv" =>
      /\ call.status = 200
      /\ \A id \in DOMAIN versions :
           /\ RowsFor(id) # {}
           /\ versions[id].user_notes = <<>> =>
                \E k \in RowsFor(id) : call.body.rows[k].note = <<>>

\* ============================================================ notes calls
\* a text without the spaces and newlines around it: what lies between its
\* first and its last token that is neither
Trimmed(t) ==
    LET inked == {i \in DOMAIN t : ~IsSpace(t[i])}
    IN IF inked = {} THEN <<>>
       ELSE SubSeq(t, CHOOSE i \in inked : \A j \in inked : i <= j,
                   CHOOSE i \in inked : \A j \in inked : j <= i)

\* C28: add_note on an existing version appends "User: " followed by the
\* trimmed note text to user_notes, separated from the existing notes by a
\* blank line iff user_notes was non-empty; the previous user_notes value
\* stays a prefix of the new one and ai_notes, transcript, name and every
\* other version are unchanged.
C28_AddNoteAppends ==
    [][(call'.op = "add_note" /\ call'.arg.version_id \in DOMAIN versions) =>
         LET id == call'.arg.version_id
             old == versions[id]
             note == <<"User:", SP>> \o Trimmed(call'.arg.request)
         IN /\ call'.status = 200
            /\ DOMAIN versions' = DOMAIN versions
            /\ versions'[id].user_notes =
                 IF old.user_notes = <<>> THEN note
                 ELSE old.user_notes \o <<NL, NL>> \o note
            /\ IsPrefix(old.user_notes, versions'[id].user_notes)
            /\ versions'[id] = [old EXCEPT !.user_notes = versions'[id].user_notes]
            /\ \A other \in DOMAIN versions \ {id} :
                 versions'[other] = versions[other]
            /\ version_order' = version_order]_vars

\* a padded note was added to v1 after a first one: the two are a blank
\* line apart and the second is trimmed
C28_Witness ==
    /\ call.op = "add_note"
    /\ "v1" \in DOMAIN versions
    /\ call.arg = Args("v1", <<SP, "b", SP>>)
    /\ call.status = 200
    /\ versions["v1"].user_notes =
         <<"User:", SP, NL, NL, "User:", SP, "b">>
    /\ versions["v1"].transcript = <<"T">>

\* the three fields a PUT may supply
NoteFields == {"user_notes", "ai_notes", "transcript"}

\* C29: update_notes changes only the fields supplied: each of user_notes,
\* ai_notes and transcript that is absent in the request keeps its stored
\* value, each supplied one is replaced by the supplied value (an empty
\* string included), and the version's id, name, position and all other
\* versions are unchanged.
C29_UpdateOnlySupplied ==
    [][(call'.op = "update_notes" /\ call'.arg.version_id \in DOMAIN versions)
         => LET id == call'.arg.version_id
                request == call'.arg.request
            IN /\ call'.status = 200
               /\ DOMAIN versions' = DOMAIN versions
               /\ \A field \in NoteFields :
                    versions'[id][field] =
                      IF request[field] = NoText THEN versions[id][field]
                      ELSE request[field]
               /\ versions'[id].id = versions[id].id
               /\ versions'[id].name = versions[id].name
               /\ version_order' = version_order
               /\ \A other \in DOMAIN versions \ {id} :
                    versions'[other] = versions[other]]_vars

\* a PUT that supplied only an empty user_notes emptied the notes of v1 and
\* kept its ai_notes and transcript
C29_Witness ==
    /\ call.op = "update_notes"
    /\ {"v1", ScratchId} \subseteq DOMAIN versions
    /\ call.arg = Args("v1", [user_notes |-> <<>>, ai_notes |-> NoText,
                              transcript |-> NoText])
    /\ call.status = 200
    /\ versions["v1"].user_notes = <<>>
    /\ versions["v1"].ai_notes = Summary
    /\ versions["v1"].transcript = <<"T">>
    /\ versions[ScratchId].user_notes # <<>>

\* ====================================================== the version note panel
\* The note the user keeps per version (_version_notes) and the one on
\* display (_current_version_note), under the handlers that read or write
\* them.  The handlers are followed with these two fields; the segment
\* history is not.
PanelFrame == UNCHANGED <<history, stack, make_request, call, appended_ids>>

\* dict[key] = value
Put(dict, key, value) ==
    [k \in DOMAIN dict \cup {key} |-> IF k = key THEN value ELSE dict[k]]

\* dict.get(key, "")
NoteOf(dict, key) == IF key \in DOMAIN dict THEN dict[key] ELSE <<>>

\* a selectVersion that leaves the note of the previous version on display
note_kept_on_display(version_id) == current_version_note

\* selectVersion's "Load per-version note"
note_loaded(version_id) == NoteOf(version_notes, version_id)

\* selectVersion(version_id), the note panel included
panel_selectVersion(version_id, net) ==
    LET response == get_version(versions, version_order, version_id)
    IN /\ Raises(net, response) \/ pending < MaxPending
       /\ IF Raises(net, response)
          THEN UNCHANGED <<store, loop, selection, router, meeting, panel>>
          ELSE /\ version_loaded(response.version)
               /\ current_version_note' = note_loaded(version_id)
               /\ UNCHANGED version_notes
       /\ PanelFrame

\* the notes users type into the panel and the text they take over from the
\* AI notes area
PanelTexts == {<<"n">>, <<SP>>}
AiTexts == {<<"x">>}

\* updateVersionNote(note_text): the note is stored for the selected version
\* and synced to the store (GET the version, POST it back with the note as
\* user_notes); a failed sync is logged
updateVersionNote(note_text, net_get, net_post) ==
    LET got == get_version(versions, version_order, selected_version_id)
        posted == create_version(versions, version_order,
                                 [got.version EXCEPT !.user_notes = note_text])
        synced == ~Raises(net_get, got) /\ Delivered(net_post)
    IN /\ IF Falsy(selected_version_id)
          THEN UNCHANGED <<store, panel>>
          ELSE /\ version_notes' =
                    Put(version_notes, selected_version_id, note_text)
               /\ current_version_note' = note_text
               /\ versions' = IF synced THEN posted.versions ELSE versions
               /\ version_order' = IF synced THEN posted.order
                                   ELSE version_order
       /\ UNCHANGED <<loop, selection, router, meeting>>
       /\ PanelFrame

\* the body shared by addAiNotesToStaging and addAiNotesText: the text goes
\* behind the note on display, a blank line apart unless the note is blank,
\* and the result is stored for the selected version if there is one
note_extended(text) ==
    LET extended == IF strip(current_version_note) # <<>>
                    THEN current_version_note \o <<NL, NL>> \o text
                    ELSE text
    IN /\ NoteCount(current_version_note) < MaxNotes
       /\ current_version_note' = extended
       /\ version_notes' =
            IF ~Falsy(selected_version_id)
            THEN Put(version_notes, selected_version_id, extended)
            ELSE version_notes
       /\ UNCHANGED <<store, loop, selection, router, meeting>>
       /\ PanelFrame

\* addAiNotesToStaging
addAiNotesToStaging ==
    /\ note_extended(current_ai_notes)

\* addAiNotesText(text)
addAiNotesText(text) ==
    /\ note_extended(text)

\* resetWorkspace, the note panel included
panel_resetWorkspace(net) ==
    /\ workspace_cleared(net)
    /\ IF Delivered(net)
       THEN /\ current_version_note' = <<>>
            /\ version_notes' = [k \in {} |-> <<>>]
       ELSE UNCHANGED panel
    /\ PanelFrame

\* somebody has AI notes generated for v1 from a transcript
ai_notes_generated ==
    /\ generate_ai_notes_called("v1", <<"T">>, "ok")

PanelNext ==
    \/ \E version_id \in VersionIds, net \in NetOutcomes :
         panel_selectVersion(version_id, net)
    \/ \E fetch \in FetchOutcomes : mark_current_segments_as_seen(fetch)
    \/ \E note_text \in PanelTexts, net_get \in NetOutcomes,
          net_post \in NetOutcomes :
         updateVersionNote(note_text, net_get, net_post)
    \/ addAiNotesToStaging
    \/ \E text \in AiTexts : addAiNotesText(text)
    \/ \E net \in NetOutcomes : panel_resetWorkspace(net)
    \/ ai_notes_generated

PanelSpec == Init /\ [][PanelNext]_vars

\* C30: per-version notes do not leak between versions: whenever a version
\* is selected, currentVersionNote is the note stored in _version_notes for
\* the selected version (empty if none), under any selectVersion,
\* updateVersionNote, addAiNotesToStaging, addAiNotesText and resetWorkspace
\* with any backend failures.
\* A note written while A is selected is shown again when A is selected
\* again and never while another version is: a step writes no stored note
\* but the selected version's, and a successful selectVersion stores none.
C30_NoteOfSelectedVersion ==
    /\ [](~Falsy(selected_version_id) =>
            current_version_note = NoteOf(version_notes, selected_version_id))
    /\ [][/\ \A id \in DOMAIN version_notes \cap DOMAIN version_notes' :
               id # selected_version_id =>
                 version_notes'[id] = version_notes[id]
          /\ selected_version_id' # selected_version_id =>
               \/ version_notes' = version_notes
               \/ Falsy(selected_version_id')]_vars

\* a note was written under v1 and another under the scratch version; v1 is
\* selected again and shows its own
C30_Witness ==
    /\ selected_version_id = "v1"
    /\ ScratchId \in DOMAIN version_notes
    /\ version_notes[ScratchId] = <<"x">>
    /\ current_version_note = <<"n", NL, NL, "summary">>
    /\ pending = 0

====
